---- MODULE Spec2Model ----
(***************************************************************************)
(* Monte Carlo ES (exploring starts) trainer of src/src/rl.rs,             *)
(* train_monte_carlo_exploring_starts, as a state machine.                 *)
(*                                                                         *)
(* The trainer is generic in State, Action, the start sampler and the step *)
(* function.  The model instantiates State and Action with small sets and  *)
(* lets the two callbacks answer anything their signature allows, subject  *)
(* to the kind of MDP chosen at construction (variable mdp).               *)
(*                                                                         *)
(* The two std HashMaps that the code iterates (first_visits at line 49,   *)
(* Q[state] at line 55) use RandomState: their iteration order is not      *)
(* fixed by the program, so every order is a possible behaviour.           *)
(*                                                                         *)
(* Arithmetic is i64 in the code; the bounds below keep every value far    *)
(* from the i64 range, so the model uses unbounded integers.               *)
(***************************************************************************)
EXTENDS Integers, Sequences, FiniteSets, TLC

\* ------------------------------------------------------------------ bounds
\* largest value of the `episodes` argument that is explored
MaxEpisodes == 2
\* number of next_state calls of one run within which the step function
\* ends every episode: it returns a successor only while the calls left
\* suffice to end this episode and the episodes still to come
MaxCalls == 4

\* ------------------------------------------------- instantiation of generics
\* State: Copy + Eq + Hash
States == {"S1", "S2"}
\* Action: Copy + Default + Eq + Hash
Actions == {"A", "B"}
\* Action::default()
DefaultAction == "A"
\* Option<State>::None
None == "None"

\* per-step rewards (i64) the step function may return, by kind of MDP
Rewards == {-1, 1}
NonNegRewards == {1, 2}
MinReward == CHOOSE r \in NonNegRewards : \A x \in NonNegRewards : r <= x
MaxReward == CHOOSE r \in NonNegRewards : \A x \in NonNegRewards : x <= r

\* kinds of MDP (the closures handed to the trainer)
\*  "any"    : any successor, any reward of Rewards
\*  "nonneg" : any successor, rewards of NonNegRewards only
\*  "toy"    : from S1, A yields +1 and terminates, B yields -1 and
\*             terminates; S2 behaves like "any"
\*  "const"  : every step is terminal with reward ConstReward[action]
MDPs == {"any", "nonneg", "toy", "const"}
ConstReward == [a \in Actions |-> IF a = "A" THEN 1 ELSE 2]

VARIABLES
  mdp,          \* the MDP behind explore_starts / next_state
  det,          \* TRUE: callbacks are deterministic functions of (input, rng)
  episodes,     \* argument `episodes`
  pc,           \* position in the function body
  n,            \* loop index of `for _ in 0..episodes`
  rng,          \* state of the random source: number of callback calls made
  state_action, \* local `state_action`
  episode,      \* local `episode`: Vec<((State, Action), i64)>
  first_visits, \* local `first_visits`, the entries not yet iterated
  q,            \* local `q`
  policy,       \* local `policy`
  tape,         \* what the deterministic callbacks answer: (rng, input) -> output
  run,          \* 1 or 2: which of two runs on the same seed is executing
  policy1,      \* the Policy returned by run 1
  tied,         \* history: some max_by_key met two maximal actions
  visited,      \* history: states of all recorded steps so far
  starts,       \* history: number of explore_starts calls in this run
  longest,      \* history: length of the longest episode so far
  gsum,         \* history: per pair, sum of first-visit returns
  gcnt,         \* history: per pair, number of episodes containing the pair
  answer,       \* history: what the latest callback call of the episode returned
  bj            \* the Blackjack closures of src/src/blackjack.rs (main)

vars == <<mdp, det, episodes, pc, n, rng, state_action, episode, first_visits,
          q, policy, tape, run, policy1, tied, visited, starts, longest,
          gsum, gcnt, answer, bj>>

hist == <<visited, starts, longest, gsum, gcnt>>

\* ---------------------------------------------------------------- helpers
EmptyMap == [x \in {} |-> x]

\* map with key k set to v (HashMap::insert)
Insert(m, k, v) == [x \in (DOMAIN m) \cup {k} |-> IF x = k THEN v ELSE m[x]]

\* map without key k
Remove(m, k) == [x \in (DOMAIN m) \ {k} |-> m[x]]

Pairs == States \X Actions

\* Rational64
Ratio(numer, denom) == [numer |-> numer, denom |-> denom]

\* Rational64::from_integer
FromInteger(t) == Ratio(t, 1)

\* Ord for Ratio with positive denominators: x <= y
RatioLeq(x, y) == x.numer * y.denom <= y.numer * x.denom

\* all orders in which a HashMap with key set S may be iterated
RECURSIVE Orders(_)
Orders(S) ==
  IF S = {} THEN {<<>>}
  ELSE UNION {{<<x>> \o o : o \in Orders(S \ {x})} : x \in S}


\* `0..=count` in place of `0..count`
InRangeInclusive(i, count) == i <= count

\* line 23: the index i is in the range `0..count`
InRange(i, count) == i < count

\* the map is rebuilt with the one entry instead of being extended
InsertFresh(m, k, v) == [x \in {k} |-> v]

\* policy.entry(state).or_insert(action): an entry is never replaced
InsertIfAbsent(m, k, v) == IF k \in DOMAIN m THEN m ELSE Insert(m, k, v)

\* line 56: policy.insert(state, action)
PolicyInsert(m, k, v) == Insert(m, k, v)

\* the test of line 29 turned round
IsNone(next_state) == next_state = None

\* line 29: `if let Some(state) = next_state`
IsSome(next_state) == next_state # None

\* the default action, whatever the policy says
AlwaysDefault(pol, state) == DefaultAction

\* line 32-35: the action of the policy for `state`, or Action::default()
PolicyOrDefault(pol, state) ==
  IF state \in DOMAIN pol THEN pol[state] ELSE DefaultAction

\* -------------------------------------------------- the two callbacks
\* input of explore_starts, as a key of the tape
StartInput == <<"start", "start">>

\* the step function may still return a successor state: after this call
\* (rng - starts calls of next_state were made before it) one call is left
\* for each of the episodes - n episodes not finished yet
MayContinue == (rng - starts) + 1 + (episodes - n) <= MaxCalls

\* what next_state((state, action), rng) may return:
\* <<Option<State>, reward>>
StepOutcomes(sa) ==
  LET succ == IF MayContinue THEN States \cup {None} ELSE {None}
      free(R) == succ \X R
  IN CASE mdp = "any"    -> free(Rewards)
       [] mdp = "nonneg" -> free(NonNegRewards)
       [] mdp = "toy"    -> IF sa[1] = "S1"
                            THEN {<<None, IF sa[2] = "A" THEN 1 ELSE -1>>}
                            ELSE free(Rewards)
       [] mdp = "const"  -> {<<None, ConstReward[sa[2]]>>}

\* the answers a callback can give to `input` in random-source state rng:
\* a deterministic callback repeats what it answered to the same input in
\* the same random-source state
Answers(input, choices) ==
  IF det /\ <<rng, input>> \in DOMAIN tape
  THEN {tape[<<rng, input>>]}
  ELSE choices

Record(input, out) ==
  tape' = IF det THEN Insert(tape, <<rng, input>>, out) ELSE tape

\* ------------------------------------------ first-visit returns (42-47)
\* the loop `for &(state_action, reward) in episode.iter().rev()`, from
\* position i down to 1, with the running `returns` and the map so far
\* the same loop with `entry(state_action).or_insert(returns)`: a pair keeps
\* the return of its last occurrence
RECURSIVE RevFoldKeep(_, _, _, _)
RevFoldKeep(ep, i, returns, fv) ==
  IF i = 0 THEN fv
  ELSE LET r == returns + ep[i][2]
       IN RevFoldKeep(ep, i - 1, r,
                      IF ep[i][1] \in DOMAIN fv THEN fv ELSE Insert(fv, ep[i][1], r))

RECURSIVE RevFold(_, _, _, _)
RevFold(ep, i, returns, fv) ==
  IF i = 0 THEN fv
  ELSE LET r == returns + ep[i][2]
       IN RevFold(ep, i - 1, r, Insert(fv, ep[i][1], r))

\* the loop with `.rev().skip(1)`: the terminal step is left out
FirstVisitsSkipLast(ep) == RevFold(ep, Len(ep) - 1, 0, EmptyMap)

FirstVisits(ep) == RevFold(ep, Len(ep), 0, EmptyMap)

\* ------------------------------------------------ Q update (50-53)
\* the update with the denominator left as it was
EntryUpdateSameDenom(qq, action, returns) ==
  IF action \in DOMAIN qq
  THEN Insert(qq, action, Ratio(qq[action].numer + returns, qq[action].denom))
  ELSE Insert(qq, action, FromInteger(returns))

\* the update that replaces the estimate by the latest return
EntryUpdateLatest(qq, action, returns) == Insert(qq, action, FromInteger(returns))

\* the update that counts the new return twice
EntryUpdateTwice(qq, action, returns) ==
  IF action \in DOMAIN qq
  THEN Insert(qq, action, Ratio(qq[action].numer + returns + returns, qq[action].denom + 1))
  ELSE Insert(qq, action, FromInteger(returns))

\* the update that rebuilds the state's table with the one action
EntryUpdateFresh(qq, action, returns) ==
  [x \in {action} |-> IF action \in DOMAIN qq
                      THEN Ratio(qq[action].numer + returns, qq[action].denom + 1)
                      ELSE FromInteger(returns)]

\* the update that folds the return into every action of the state
EntryUpdateAll(qq, action, returns) ==
  [x \in (DOMAIN qq) \cup {action} |->
     IF x \in DOMAIN qq
     THEN Ratio(qq[x].numer + returns, qq[x].denom + 1)
     ELSE FromInteger(returns)]

\* qq.entry(action).and_modify(..).or_insert_with(..)
EntryUpdate(qq, action, returns) ==
  IF action \in DOMAIN qq
  THEN Insert(qq, action, Ratio(qq[action].numer + returns, qq[action].denom + 1))
  ELSE Insert(qq, action, FromInteger(returns))

\* ------------------------------------------------ greedy action (55)
\* Iterator::max_by_key over qq iterated in `order`: the last maximal element
\* the fold of min_by_key
RECURSIVE MinFold(_, _, _, _)
MinFold(qq, order, i, best) ==
  IF i > Len(order) THEN best
  ELSE MinFold(qq, order, i + 1,
               IF RatioLeq(qq[order[i]], qq[best]) THEN order[i] ELSE best)

\* the fold that compares the sums of returns, not the means
RECURSIVE MaxFoldNumer(_, _, _, _)
MaxFoldNumer(qq, order, i, best) ==
  IF i > Len(order) THEN best
  ELSE MaxFoldNumer(qq, order, i + 1,
                    IF qq[best].numer <= qq[order[i]].numer THEN order[i] ELSE best)

RECURSIVE MaxFold(_, _, _, _)
MaxFold(qq, order, i, best) ==
  IF i > Len(order) THEN best
  ELSE MaxFold(qq, order, i + 1,
               IF RatioLeq(qq[best], qq[order[i]]) THEN order[i] ELSE best)

\* the last action the map yields, whatever its estimate
LastByOrder(qq, order) == order[Len(order)]

MaxByKey(qq, order) == MaxFold(qq, order, 2, order[1])

\* actions of qq whose estimate is maximal
Maximal(qq) == {a \in DOMAIN qq : \A b \in DOMAIN qq : RatioLeq(qq[b], qq[a])}

\* ------------------------------------------------ loop body (49-57)
\* q.entry(state).or_default() after the update of lines 51-53
UpdatedTable(qm, key, returns) ==
  EntryUpdate(IF key[1] \in DOMAIN qm THEN qm[key[1]] ELSE EmptyMap,
              key[2], returns)

\* q and policy after one iteration of the loop over first_visits, for the
\* entry (key, returns), when qq.iter() yields the actions in `order`
LoopBody(qm, pm, key, returns, order) ==
  LET qq == UpdatedTable(qm, key, returns)
  IN [q |-> Insert(qm, key[1], qq),
      policy |-> PolicyInsert(pm, key[1], MaxByKey(qq, order))]

\* q and policy after the iterations for the entries order[i..] of fv, for
\* every order in which the tables of q may be iterated
RECURSIVE LoopFrom(_, _, _, _, _)
LoopFrom(qm, pm, fv, order, i) ==
  IF i > Len(order) THEN {[q |-> qm, policy |-> pm]}
  ELSE UNION {LoopFrom(b.q, b.policy, fv, order, i + 1) :
                b \in {LoopBody(qm, pm, order[i], fv[order[i]], o) :
                         o \in Orders(DOMAIN UpdatedTable(qm, order[i], fv[order[i]]))}}

\* q and policy after the whole loop, for every order in which
\* first_visits.iter() may yield the entries of fv
LoopResults(qm, pm, fv) ==
  UNION {LoopFrom(qm, pm, fv, order, 1) : order \in Orders(DOMAIN fv)}

\* ------------------------------------------------ history bookkeeping
\* earliest position of pair sa in episode ep
EarliestIndex(ep, sa) ==
  CHOOSE i \in 1..Len(ep) : ep[i][1] = sa /\ \A j \in 1..(i - 1) : ep[j][1] # sa

\* sum of the rewards of ep from position i to the end
RECURSIVE SumFrom(_, _)
SumFrom(ep, i) == IF i > Len(ep) THEN 0 ELSE ep[i][2] + SumFrom(ep, i + 1)

PairsOf(ep) == {ep[i][1] : i \in 1..Len(ep)}

FirstVisitReturn(ep, sa) == SumFrom(ep, EarliestIndex(ep, sa))

Max(a, b) == IF a >= b THEN a ELSE b

\* ------------------------------------------------------------------ Init
\* value of `state_action` while no episode is running (the local is not
\* in scope)
NoStateAction == <<None, None>>

\* what a callback returned: explore_starts a state and an action,
\* next_state an Option<State> and a reward
Returned(kind, state, action, reward) ==
  [kind |-> kind, state |-> state, action |-> action, reward |-> reward]

NoAnswer == Returned("none", None, None, 0)

\* ---------------------------------------------- Blackjack (blackjack.rs)
\* struct State
BJState(sum, dealer_card, usable_ace) ==
  [sum |-> sum, dealer_card |-> dealer_card, usable_ace |-> usable_ace]

\* the closures of main and the loop of play_dealer:
\*  pc       "idle", "start" (before explore_starts), "call" (before a
\*           next_state call), "dealer" (in the loop of play_dealer), "done"
\*  state    the State handed to the next call, or `state` of the last call
\*  hit      the action handed to the next call
\*  dealer   the locals dealer_card, sum, usable_ace of play_dealer
\*  next     "Some" or "None": what the last call returned as Option<State>
\*  reward   the reward the last call returned
\*  returns  history: sum of the rewards returned in the episode
\*  calls    history: number of next_state calls that returned
BJ(pc_, state, hit, dealer, next, reward, returns, calls) ==
  [pc |-> pc_, state |-> state, hit |-> hit, dealer |-> dealer, next |-> next,
   reward |-> reward, returns |-> returns, calls |-> calls]

\* the Blackjack closures are not in use
BJIdle == BJ("idle", BJState(0, 0, FALSE), FALSE, BJState(0, 0, FALSE), "None", 0, 0, 0)

InitLocals ==
  /\ pc = "loop"
  /\ n = 0
  /\ rng = 0
  /\ state_action = NoStateAction
  /\ episode = <<>>
  /\ first_visits = EmptyMap
  /\ q = EmptyMap
  /\ policy = EmptyMap
  /\ tape = EmptyMap
  /\ run = 1
  /\ policy1 = EmptyMap
  /\ tied = FALSE
  /\ visited = {}
  /\ starts = 0
  /\ longest = 0
  /\ gsum = [p \in Pairs |-> 0]
  /\ gcnt = [p \in Pairs |-> 0]
  /\ answer = NoAnswer

Init ==
  /\ bj = BJIdle
  /\ mdp \in MDPs
  /\ det = FALSE
  /\ episodes \in 0..MaxEpisodes
  /\ InitLocals

\* two runs on one seed with deterministic callbacks
InitDet ==
  /\ bj = BJIdle
  /\ mdp = "any"
  /\ det = TRUE
  /\ episodes \in 0..MaxEpisodes
  /\ InitLocals

\* --------------------------------------------------------------- actions
\* line 23-25: next iteration of the for loop, explore_starts(rng)
ExploreStarts ==
  /\ pc = "loop"
  /\ InRange(n, episodes)
  /\ \E sa \in Answers(StartInput, Pairs) :
       /\ state_action' = sa
       /\ Record(StartInput, sa)
       /\ answer' = Returned("start", sa[1], sa[2], 0)
  /\ episode' = <<>>
  /\ rng' = rng + 1
  /\ starts' = starts + 1
  /\ pc' = "step"
  /\ UNCHANGED <<bj, mdp, det, episodes, n, first_visits, q, policy, run, policy1,
                 tied, visited, longest, gsum, gcnt>>

\* line 27-36: one call of next_state that returns a successor state
StepContinue ==
  /\ pc = "step"
  /\ \E out \in Answers(state_action, StepOutcomes(state_action)) :
       /\ IsSome(out[1])
       /\ Record(state_action, out)
       /\ answer' = Returned("step", out[1], None, out[2])
       /\ episode' = Append(episode, <<state_action, out[2]>>)
       /\ state_action' = <<out[1], PolicyOrDefault(policy, out[1])>>
  /\ visited' = visited \cup {state_action[1]}
  /\ rng' = rng + 1
  /\ UNCHANGED <<bj, mdp, det, episodes, pc, n, first_visits, q, policy, run,
                 policy1, tied, starts, longest, gsum, gcnt>>

\* line 27-28, 37-47: the call of next_state that returns None, and the
\* first-visit returns of the finished episode
StepTerminate ==
  /\ pc = "step"
  /\ \E out \in Answers(state_action, StepOutcomes(state_action)) :
       /\ ~IsSome(out[1])
       /\ Record(state_action, out)
       /\ answer' = Returned("step", out[1], None, out[2])
       /\ episode' = Append(episode, <<state_action, out[2]>>)
  /\ first_visits' = FirstVisits(episode')
  /\ visited' = visited \cup {state_action[1]}
  /\ rng' = rng + 1
  /\ longest' = Max(longest, Len(episode'))
  /\ gsum' = [p \in Pairs |-> IF p \in PairsOf(episode')
                              THEN gsum[p] + FirstVisitReturn(episode', p)
                              ELSE gsum[p]]
  /\ gcnt' = [p \in Pairs |-> IF p \in PairsOf(episode') THEN gcnt[p] + 1 ELSE gcnt[p]]
  /\ pc' = "update"
  /\ UNCHANGED <<bj, mdp, det, episodes, n, state_action, q, policy, run, policy1,
                 tied, starts>>

\* line 49-57: one iteration of `for (&(state, action), &returns) in
\* first_visits.iter()`; the entry and the order of qq.iter() are whatever
\* the hash maps yield
Update ==
  /\ pc = "update"
  /\ \E key \in DOMAIN first_visits :
       LET returns == first_visits[key]
           qq == UpdatedTable(q, key, returns)
       IN /\ \E order \in Orders(DOMAIN qq) :
               /\ q' = LoopBody(q, policy, key, returns, order).q
               /\ policy' = LoopBody(q, policy, key, returns, order).policy
          /\ tied' = (tied \/ Cardinality(Maximal(qq)) > 1)
          /\ first_visits' = Remove(first_visits, key)
  /\ IF DOMAIN first_visits' = {}
     THEN \* line 58: end of the loop body, its locals go out of scope
          /\ pc' = "loop"
          /\ n' = n + 1
          /\ state_action' = NoStateAction
          /\ episode' = <<>>
          /\ answer' = NoAnswer
     ELSE /\ pc' = "update"
          /\ UNCHANGED <<n, state_action, episode, answer>>
  /\ UNCHANGED <<bj, mdp, det, episodes, rng, tape, run, policy1, visited, starts,
                 longest, gsum, gcnt>>

\* line 59: return policy
Return ==
  /\ pc = "loop"
  /\ ~InRange(n, episodes)
  /\ pc' = "done"
  /\ UNCHANGED <<bj, mdp, det, episodes, n, rng, state_action, episode,
                 first_visits, q, policy, tape, run, policy1, tied, hist,
                 answer>>

\* a second call of the trainer with the same arguments and the same seed
SecondRun ==
  /\ pc = "done"
  /\ det
  /\ run = 1
  /\ run' = 2
  /\ policy1' = policy
  /\ pc' = "loop"
  /\ n' = 0
  /\ rng' = 0
  /\ episode' = <<>>
  /\ first_visits' = EmptyMap
  /\ q' = EmptyMap
  /\ policy' = EmptyMap
  /\ visited' = {}
  /\ starts' = 0
  /\ longest' = 0
  /\ gsum' = [p \in Pairs |-> 0]
  /\ gcnt' = [p \in Pairs |-> 0]
  /\ UNCHANGED <<bj, mdp, det, episodes, state_action, tape, tied, answer>>

Next == ExploreStarts \/ StepContinue \/ StepTerminate \/ Update \/ Return

Spec == Init /\ [][Next]_vars

\* the trainer is one sequential loop: it keeps running while it can
FairSpec == Spec /\ WF_vars(Next)

NextDet == Next \/ SecondRun

SpecDet == InitDet /\ [][NextDet]_vars


\* ------------------------------------------------ Blackjack: functions
\* the trainer's variables
tvars == <<mdp, det, episodes, pc, n, rng, state_action, episode, first_visits,
           q, policy, tape, run, policy1, tied, visited, starts, longest,
           gsum, gcnt, answer>>

\* u8 arithmetic that wraps
U8(x) == x % 256

\* line 20: the intermediate values of
\* ((sum - 12) * 10 + dealer_card) * 2 + usable_ace as u8, before wrapping
IndexSteps(value) ==
  LET a == value.sum - 12
      b == U8(a) * 10
      c == U8(b) + value.dealer_card
      e == U8(c) * 2
      f == U8(e) + (IF value.usable_ace THEN 1 ELSE 0)
  IN <<a, b, c, e, f>>

\* line 18-22: impl From<&State> for u8
Index(value) == U8(IndexSteps(value)[5])

\* some operation of line 20 leaves the range of u8
IndexOverflows(value) == \E i \in 1..5 : IndexSteps(value)[i] \notin 0..255

\* line 38: the values of rng.random_range(-3i8..10i8)
DrawRange == -3..9

\* line 37-39: draw_card, for the random value r
DrawCard(r) == IF r >= 0 THEN r ELSE 0

\* line 42-44: card_value
CardValue(card) == IF card = 0 THEN 10 ELSE card

\* line 99-107: the pairs explore_starts can return
BJStates == {BJState(s, d, u) : s \in 12..20, d \in 0..9, u \in BOOLEAN}

\* the hit that keeps the sum after a bust with a usable ace
HitNoRescue(state, card) ==
  LET sum == state.sum + CardValue(card)
      drawn == [state EXCEPT !.sum = sum]
  IN IF sum = 21 THEN [next |-> "Dealer", state |-> drawn, reward |-> 0]
     ELSE IF sum < 21 THEN [next |-> "Some", state |-> drawn, reward |-> 0]
     ELSE IF state.usable_ace
          THEN [next |-> "Some", state |-> [drawn EXCEPT !.usable_ace = FALSE],
                reward |-> 0]
          ELSE [next |-> "None", state |-> drawn, reward |-> -1]

\* line 110-122: the branch `if hit` of next_state with the drawn card:
\* what it returns, or "Dealer" when it falls through to play_dealer
Hit(state, card) ==
  LET sum == state.sum + CardValue(card)
      drawn == [state EXCEPT !.sum = sum]
  IN IF sum = 21 THEN [next |-> "Dealer", state |-> drawn, reward |-> 0]
     ELSE IF sum < 21 THEN [next |-> "Some", state |-> drawn, reward |-> 0]
     ELSE IF state.usable_ace
          THEN [next |-> "Some",
                state |-> [drawn EXCEPT !.sum = sum - 10, !.usable_ace = FALSE],
                reward |-> 0]
          ELSE [next |-> "None", state |-> drawn, reward |-> -1]

\* the loop body that keeps the ace usable after counting it as 1
DealerAddKeepAce(d) ==
  LET sum == d.sum + CardValue(d.dealer_card)
  IN IF d.dealer_card = 1 /\ sum <= 11
     THEN [d EXCEPT !.sum = sum + 10, !.usable_ace = TRUE]
     ELSE IF sum > 21 /\ d.usable_ace
          THEN [d EXCEPT !.sum = sum - 10]
          ELSE [d EXCEPT !.sum = sum]

\* line 52-59: the locals of play_dealer after adding dealer_card
DealerAdd(d) ==
  LET sum == d.sum + CardValue(d.dealer_card)
  IN IF d.dealer_card = 1 /\ sum <= 11
     THEN [d EXCEPT !.sum = sum + 10, !.usable_ace = TRUE]
     ELSE IF sum > 21 /\ d.usable_ace
          THEN [d EXCEPT !.sum = sum - 10, !.usable_ace = FALSE]
          ELSE [d EXCEPT !.sum = sum]

\* Ordering as i64
Cmp(a, b) == IF a < b THEN -1 ELSE IF a = b THEN 0 ELSE 1

\* the reward with the comparison turned round
TerminalRewardSwapped(sum, dealer_sum) ==
  IF dealer_sum > 21 THEN 1 ELSE Cmp(dealer_sum, sum)

\* line 128-132: the reward after play_dealer
TerminalReward(sum, dealer_sum) ==
  IF dealer_sum > 21 THEN 1 ELSE Cmp(sum, dealer_sum)

\* ------------------------------------------------ Blackjack: actions
InitBJ ==
  /\ bj = BJ("start", BJState(0, 0, FALSE), FALSE, BJState(0, 0, FALSE), "None", 0, 0, 0)
  /\ mdp = "any"
  /\ det = FALSE
  /\ episodes = 0
  /\ InitLocals

\* line 99-107: explore_starts
BJExploreStarts ==
  /\ bj.pc = "start"
  /\ \E state \in BJStates, hit \in BOOLEAN :
       bj' = [bj EXCEPT !.pc = "call", !.state = state, !.hit = hit]
  /\ UNCHANGED tvars

\* line 110-119: a hit that returns a successor state; the trainer then
\* takes the action of its policy for it, or the default: any action
BJHitContinue ==
  /\ bj.pc = "call"
  /\ bj.hit
  /\ \E r \in DrawRange, hit \in BOOLEAN :
       LET h == Hit(bj.state, DrawCard(r))
       IN /\ h.next = "Some"
          /\ bj' = [bj EXCEPT !.state = h.state, !.hit = hit, !.next = "Some",
                              !.reward = h.reward,
                              !.returns = bj.returns + h.reward,
                              !.calls = bj.calls + 1]
  /\ UNCHANGED tvars

\* line 110-121: a hit that goes over 21 without a usable ace
BJHitBust ==
  /\ bj.pc = "call"
  /\ bj.hit
  /\ \E r \in DrawRange :
       LET h == Hit(bj.state, DrawCard(r))
       IN /\ h.next = "None"
          /\ bj' = [bj EXCEPT !.pc = "done", !.state = h.state, !.next = "None",
                              !.reward = h.reward,
                              !.returns = bj.returns + h.reward,
                              !.calls = bj.calls + 1]
  /\ UNCHANGED tvars

\* line 110-113, 125, 48-49: a hit that reaches 21 calls play_dealer
BJHitTwentyOne ==
  /\ bj.pc = "call"
  /\ bj.hit
  /\ \E r \in DrawRange :
       LET h == Hit(bj.state, DrawCard(r))
       IN /\ h.next = "Dealer"
          /\ bj' = [bj EXCEPT !.pc = "dealer", !.state = h.state,
                              !.dealer = BJState(0, h.state.dealer_card, FALSE)]
  /\ UNCHANGED tvars

\* line 110, 125, 48-49: stick calls play_dealer
BJStick ==
  /\ bj.pc = "call"
  /\ ~bj.hit
  /\ bj' = [bj EXCEPT !.pc = "dealer",
                      !.dealer = BJState(0, bj.state.dealer_card, FALSE)]
  /\ UNCHANGED tvars

\* line 51-64: an iteration of the loop of play_dealer that draws a card
BJDealerDraw ==
  /\ bj.pc = "dealer"
  /\ DealerAdd(bj.dealer).sum < 17
  /\ \E r \in DrawRange :
       bj' = [bj EXCEPT !.dealer = [DealerAdd(bj.dealer) EXCEPT
                                      !.dealer_card = DrawCard(r)]]
  /\ UNCHANGED tvars

\* line 51-62, 126-133: the iteration that returns the dealer's score, and
\* the return of next_state
BJDealerReturn ==
  /\ bj.pc = "dealer"
  /\ DealerAdd(bj.dealer).sum >= 17
  /\ LET reward == TerminalReward(bj.state.sum, DealerAdd(bj.dealer).sum)
     IN bj' = [bj EXCEPT !.pc = "done", !.dealer = DealerAdd(bj.dealer),
                         !.next = "None", !.reward = reward,
                         !.returns = bj.returns + reward,
                         !.calls = bj.calls + 1]
  /\ UNCHANGED tvars

NextBJ ==
  \/ BJExploreStarts
  \/ BJHitContinue
  \/ BJHitBust
  \/ BJHitTwentyOne
  \/ BJStick
  \/ BJDealerDraw
  \/ BJDealerReturn

SpecBJ == InitBJ /\ [][NextBJ]_vars

\* the closures and play_dealer are sequential code: they keep running
FairSpecBJ == SpecBJ /\ WF_vars(NextBJ)

\* ------------------------------------------------------------ properties
Present(qm, p) == p[1] \in DOMAIN qm /\ p[2] \in DOMAIN qm[p[1]]
Numer(qm, p) == IF Present(qm, p) THEN qm[p[1]][p[2]].numer ELSE 0
Denom(qm, p) == IF Present(qm, p) THEN qm[p[1]][p[2]].denom ELSE 0
Between == pc \in {"loop", "done"}

\* C1: whenever a step changes the estimate of a pair, the pair occurs in
\* the recorded episode and the amount added to the estimate's numerator is
\* the sum of the rewards from the pair's earliest position to the end of
\* the episode (one return per episode: the denominator grows by one).
C1_FirstVisitReturn ==
  [][\A p \in Pairs :
       (Numer(q', p) # Numer(q, p) \/ Denom(q', p) # Denom(q, p)) =>
         /\ p \in PairsOf(episode)
         /\ Numer(q', p) - Numer(q, p) = FirstVisitReturn(episode, p)
         /\ Denom(q', p) - Denom(q, p) = 1]_vars

\* the only episode so far had two steps, both with the same pair, and has
\* been folded into Q
C1_Witness ==
  /\ pc = "loop"
  /\ n = 1
  /\ longest = 2
  /\ \E p \in Pairs : /\ \A r \in Pairs : Present(q, r) <=> r = p
                      /\ Denom(q, p) = 1

\* C2: between episodes, a pair has an estimate exactly when it occurred in
\* some episode, and then the numerator is the sum of its first-visit
\* returns and the denominator the number of episodes that contain it.
C2_ExactMean ==
  Between =>
    \A p \in Pairs :
      /\ Present(q, p) <=> gcnt[p] > 0
      /\ Present(q, p) => q[p[1]][p[2]].numer = gsum[p] /\ q[p[1]][p[2]].denom = gcnt[p]

\* two episodes of two steps, all four steps with the same pair
C2_Witness ==
  /\ pc = "loop"
  /\ n = 2
  /\ longest = 2
  /\ \E p \in Pairs : /\ \A r \in Pairs : Present(q, r) <=> r = p
                      /\ Denom(q, p) = 2
                      /\ Numer(q, p) = 4

\* C3: in every state, Policy[s] has an estimate in Q[s] and no action of
\* Q[s] has a greater mean.
C3_Greedy ==
  \A s \in DOMAIN policy :
    /\ s \in DOMAIN q
    /\ policy[s] \in DOMAIN q[s]
    /\ \A b \in DOMAIN q[s] :
         q[s][b].numer * q[s][policy[s]].denom <= q[s][policy[s]].numer * q[s][b].denom

\* a state with two estimates of different means, sums and counts
C3_Witness ==
  \E s \in DOMAIN policy :
    /\ DOMAIN q[s] = Actions
    /\ Cardinality(Maximal(q[s])) = 1
    /\ q[s]["A"].denom # q[s]["B"].denom
    /\ q[s]["A"].numer # q[s]["B"].numer

\* C4 as stated: two runs on the same seed with deterministic callbacks
\* return the same Policy.
C4_SamePolicy == (pc = "done" /\ run = 2) => policy = policy1

\* C4 amended: the two runs return the same Policy when no greedy choice of
\* either run met two actions with exactly equal maximal estimates.
C4_SamePolicyUntied == (pc = "done" /\ run = 2 /\ ~tied) => policy = policy1

\* the second run is finished, no tie occurred, and some state has
\* estimates for both actions
C4_Witness ==
  /\ pc = "done"
  /\ run = 2
  /\ ~tied
  /\ episodes = MaxEpisodes
  /\ \E s \in DOMAIN q : DOMAIN q[s] = Actions

\* C5 as stated: in the toy MDP, once an episode has visited S1,
\* Policy[S1] is A.
C5_ToyPolicyA ==
  (mdp = "toy" /\ Between /\ "S1" \in visited) =>
    ("S1" \in DOMAIN policy /\ policy["S1"] = "A")

\* C5 amended: in the toy MDP, between episodes, Policy[S1] is A once the
\* pair (S1, A) has been recorded, and B while S1 has been recorded with B
\* only.
C5_ToyPolicyTried ==
  (mdp = "toy" /\ Between /\ "S1" \in visited) =>
    /\ "S1" \in DOMAIN policy
    /\ gcnt[<<"S1", "A">>] > 0 => policy["S1"] = "A"
    /\ gcnt[<<"S1", "A">>] = 0 => policy["S1"] = "B"

\* both actions have been tried in S1
C5_Witness ==
  /\ mdp = "toy"
  /\ pc = "loop"
  /\ gcnt[<<"S1", "A">>] > 0
  /\ gcnt[<<"S1", "B">>] > 0
  /\ policy["S1"] = "A"

\* C6: between episodes, the keys of Policy and the keys of Q are exactly
\* the states of the steps recorded so far.
C6_PolicyDomain == Between => (DOMAIN policy = visited /\ DOMAIN q = visited)

\* one state visited, the other not
C6_Witness ==
  /\ pc = "loop"
  /\ n = 2
  /\ visited = {"S2"}
  /\ DOMAIN policy = {"S2"}

\* C7 as stated: with rewards in [MinReward, MaxReward], all non-negative,
\* every mean of Q is in [MinReward, MaxReward].
C7_MeanWithinRewards ==
  mdp = "nonneg" =>
    \A p \in Pairs :
      Present(q, p) =>
        /\ MinReward * Denom(q, p) <= Numer(q, p)
        /\ Numer(q, p) <= MaxReward * Denom(q, p)

\* C7 amended: every mean of Q is at least MinReward and at most MaxReward
\* times the length of the longest episode recorded so far.
C7_MeanWithinReturns ==
  mdp = "nonneg" =>
    \A p \in Pairs :
      Present(q, p) =>
        /\ MinReward * Denom(q, p) <= Numer(q, p)
        /\ Numer(q, p) <= longest * MaxReward * Denom(q, p)

\* an estimate over two episodes that reaches the upper bound
C7_Witness ==
  /\ mdp = "nonneg"
  /\ longest = 2
  /\ \E p \in Pairs : Present(q, p) /\ Denom(q, p) = 2
                      /\ Numer(q, p) = longest * MaxReward * 2

\* C8: when every step is terminal with reward ConstReward[action], every
\* estimate of Q is exactly ConstReward[action].
C8_ConstMean ==
  mdp = "const" =>
    \A p \in Pairs :
      Present(q, p) => Numer(q, p) = ConstReward[p[2]] * Denom(q, p)

\* a pair updated twice and another one once
C8_Witness ==
  /\ mdp = "const"
  /\ pc = "done"
  /\ \E p \in Pairs : Present(q, p) /\ Denom(q, p) = 2

\* C9: the run reaches `return policy`, having started exactly `episodes`
\* episodes, and at no time has it started more.
C9_Terminates ==
  /\ <>(pc = "done")
  /\ [](pc = "done" => (n = episodes /\ starts = episodes))
  /\ [](starts <= episodes)

\* a run of the largest episode count has returned
C9_Witness ==
  /\ pc = "done"
  /\ episodes = MaxEpisodes
  /\ starts = MaxEpisodes

\* C10: no step removes a state from Policy.
C10_PolicyGrows == [][DOMAIN policy \subseteq DOMAIN policy']_vars

\* Policy grew from one state to two
C10_Witness ==
  /\ n = 2
  /\ pc = "loop"
  /\ DOMAIN policy = States
  /\ longest = 1


\* C11: a run with episodes = 0 returns the empty Policy and has called
\* neither explore_starts nor next_state.
C11_ZeroEpisodes ==
  (pc = "done" /\ episodes = 0) =>
    /\ policy = EmptyMap
    /\ starts = 0
    /\ rng = 0
    /\ answer = NoAnswer
    /\ visited = {}

\* the run with episodes = 0 has returned
C11_Witness == pc = "done" /\ episodes = 0 /\ n = 0

\* C12: before the first step of an episode state_action is the pair that
\* explore_starts returned; before every later step it is the successor
\* that the previous next_state call returned, with the Policy's action for
\* it, or the default action when Policy has none; every step records
\* state_action with the returned reward and leaves Policy and Q as they
\* were, so the Policy consulted is the one the previous episode left.
C12_ActionSelection ==
  [][pc = "step" =>
       /\ Len(episode) = 0 =>
            /\ answer.kind = "start"
            /\ state_action = <<answer.state, answer.action>>
       /\ Len(episode) > 0 =>
            /\ answer.kind = "step"
            /\ state_action[1] = answer.state
            /\ state_action[2] = IF answer.state \in DOMAIN policy
                                 THEN policy[answer.state]
                                 ELSE DefaultAction
       /\ episode' = Append(episode, <<state_action, answer'.reward>>)
       /\ policy' = policy
       /\ q' = q]_vars

\* a later step of the second episode takes the action B from the Policy
C12_Witness ==
  /\ pc = "step"
  /\ n = 1
  /\ Len(episode) > 0
  /\ state_action[1] \in DOMAIN policy
  /\ state_action[2] = "B"

\* C13: an episode starts with one explore_starts call made when no
\* first-visit entry is left to fold; every next_state call records one
\* triple and the episode stays in the stepping phase exactly when the call
\* returned a successor; Q and Policy change only in the update phase,
\* which follows a terminated episode of at least one step and leads back
\* to the head of the loop.
C13_EpisodeStateMachine ==
  [][/\ pc = "loop" => pc' \in {"step", "done"}
     /\ (pc = "loop" /\ pc' = "step") <=> (starts' = starts + 1)
     /\ starts' # starts =>
          (first_visits = EmptyMap /\ episode' = <<>> /\ answer'.kind = "start")
     /\ pc = "step" =>
          /\ pc' \in {"step", "update"}
          /\ Len(episode') = Len(episode) + 1
          /\ answer'.kind = "step"
          /\ pc' = "step" <=> answer'.state # None
     /\ pc = "update" => (pc' \in {"update", "loop"} /\ Len(episode) >= 1)
     /\ (q' # q \/ policy' # policy) => pc = "update"]_vars

\* the second episode ended after more than one step
C13_Witness ==
  /\ pc = "update"
  /\ n = 1
  /\ Len(episode) >= 2
  /\ answer.state = None


\* C14: every state of Q has a non-empty action table and every estimate a
\* denominator of at least 1; no step removes an estimate or lowers its
\* denominator.
C14_QWellFormed ==
  /\ [](\A s \in DOMAIN q :
          /\ DOMAIN q[s] # {}
          /\ \A a \in DOMAIN q[s] : q[s][a].denom >= 1)
  /\ [][\A p \in Pairs :
          Present(q, p) => (Present(q', p) /\ Denom(q', p) >= Denom(q, p))]_vars

\* a state with both actions estimated, one of them over two episodes
C14_Witness ==
  \E s \in DOMAIN q :
    /\ DOMAIN q[s] = Actions
    /\ \E a \in Actions : q[s][a].denom = 2

\* C15: no step changes the estimate of a pair that does not occur in the
\* recorded episode, nor the Policy entry of a state that does not occur in
\* it.
C15_Frame ==
  [][/\ \A p \in Pairs \ PairsOf(episode) :
          /\ Present(q', p) <=> Present(q, p)
          /\ Numer(q', p) = Numer(q, p)
          /\ Denom(q', p) = Denom(q, p)
     /\ \A s \in States \ {p[1] : p \in PairsOf(episode)} :
          /\ s \in DOMAIN policy' <=> s \in DOMAIN policy
          /\ s \in DOMAIN policy => policy'[s] = policy[s]]_vars

\* an entry of the second episode has been folded while Q holds a pair and
\* Policy a state that the episode does not contain
C15_Witness ==
  /\ pc = "update"
  /\ n = 1
  /\ DOMAIN first_visits # PairsOf(episode)
  /\ \E p \in Pairs \ PairsOf(episode) : Present(q, p)
  /\ \E s \in DOMAIN policy : s \notin {p[1] : p \in PairsOf(episode)}

\* C16: whatever the order in which the entries of first_visits are folded
\* and the tables of Q iterated, the loop ends with the same Q, the same
\* states in Policy and, for every state whose maximal estimate is attained
\* by one action only, the same Policy entry.
C16_OrderIndependent ==
  pc = "update" =>
    \A x, y \in LoopResults(q, policy, first_visits) :
      /\ x.q = y.q
      /\ DOMAIN x.policy = DOMAIN y.policy
      /\ \A s \in DOMAIN x.policy :
           (s \in DOMAIN x.q /\ Cardinality(Maximal(x.q[s])) = 1) =>
             x.policy[s] = y.policy[s]

\* a state new to Q occurs in the episode with both actions
C16_Witness ==
  /\ pc = "update"
  /\ \E s \in States :
       /\ s \notin DOMAIN q
       /\ <<s, "A">> \in DOMAIN first_visits
       /\ <<s, "B">> \in DOMAIN first_visits
       /\ first_visits[<<s, "A">>] # first_visits[<<s, "B">>]


\* C17: every State handed to the Blackjack step function has its sum in
\* 12..=20 and its dealer_card in 0..=9; its index is computed without
\* leaving u8, lies in 0..180 and belongs to no other such State; a call
\* that returns a successor keeps the dealer_card.
C17_StateRange ==
  /\ [](bj.pc = "call" =>
          /\ bj.state.sum \in 12..20
          /\ bj.state.dealer_card \in 0..9
          /\ ~IndexOverflows(bj.state)
          /\ Index(bj.state) \in 0..179
          /\ Index(bj.state) =
               ((bj.state.sum - 12) * 10 + bj.state.dealer_card) * 2
               + (IF bj.state.usable_ace THEN 1 ELSE 0)
          /\ \A t \in BJStates : Index(t) = Index(bj.state) => t = bj.state)
  /\ [][(bj.pc = "call" /\ bj'.pc = "call") =>
          bj'.state.dealer_card = bj.state.dealer_card]_vars

\* a successor after a bust that the usable ace rescued: the sum is back at
\* 12, which no hit reaches otherwise
C17_Witness ==
  /\ bj.pc = "call"
  /\ bj.calls >= 2
  /\ bj.state.sum = 12
  /\ ~bj.state.usable_ace

\* C18: every Blackjack episode ends: the step function returns None after
\* at most 18 calls, every call that returns a successor has raised the sum
\* or spent the usable ace, and play_dealer returns a score of at least 17.
C18_BlackjackTerminates ==
  /\ <>(bj.pc = "done")
  /\ [](bj.calls <= 2 * (20 - 12 + 1))
  /\ [][(bj.pc = "call" /\ bj'.pc = "call") =>
          \/ (bj'.state.sum > bj.state.sum
              /\ bj'.state.usable_ace = bj.state.usable_ace)
          \/ (bj.state.usable_ace /\ ~bj'.state.usable_ace)]_vars
  /\ []((bj.pc = "done" /\ bj.reward # -1) => bj.dealer.sum >= 17)
  /\ [][bj.pc = "dealer" =>
          \/ bj'.dealer.sum > bj.dealer.sum
          \/ (bj.dealer.usable_ace /\ ~bj'.dealer.usable_ace)]_vars

\* the longest episode: 18 calls, the last one decided by the dealer after
\* the dealer's own ace stopped being usable
C18_Witness ==
  /\ bj.pc = "done"
  /\ bj.calls = 18
  /\ bj.dealer.sum >= 17
  /\ bj.dealer.dealer_card # bj.state.dealer_card

====
